---- MODULE Spec2Model ----
(***************************************************************************)
(* Janus: the scene document and its undo/redo history                     *)
(* (src/backend/engine/SceneManager.ts), and the script engine with the    *)
(* part of the App that runs a script (src/backend/engine/CSGEngine.ts,    *)
(* src/App.tsx).                                                           *)
(*                                                                         *)
(* The document is a JavaScript Map from key to CADObject; a Map keeps     *)
(* insertion order, and set() on a live key keeps that key's place.  It is *)
(* modelled as a sequence of [key, val] entries.  A snapshot is the text   *)
(* JSON.stringify(Array.from(objects.values())): the values in order, the  *)
(* keys dropped.  loadScene keys every record again by its own id field.   *)
(***************************************************************************)
EXTENDS Integers, Sequences, FiniteSets, TLC

VARIABLES
    objects,    \* SceneManager.objects: sequence of [key, val]
    history,    \* SceneManager.history: sequence of snapshots, newest last
    redoStack,  \* SceneManager.redoStack: sequence of snapshots, newest last
    past,       \* ghost: the documents the undo stack stands for, never evicted
    last,       \* ghost: the call that made the last step
    scen,       \* ghost: progress of scenario D (create X, rename Y, rename Z, undo, undo)
    nops,       \* ghost: number of calls made and commands processed so far
    engine,     \* csgEngine.execute: the run in progress and how the last one ended
    app,        \* the page: App's objects shown, currentScript, messages and
                \* isAiLoading, the place handleSendMessage is at, the last error
                \* message, and onerror, the handler index.tsx puts on the window
    runs        \* the calls of execute that returned: code and result (ghost)

vars == <<objects, history, redoStack, past, last, scen, nops, engine, app, runs>>

(***************************************************************************)
(* Bounds of the model and constants of the program                        *)
(***************************************************************************)
MaxOps == 4          \* calls and commands per behaviour of Spec
MaxEditOps == 5      \* calls and commands per behaviour of SpecEdits
MaxNameOps == 5      \* calls and commands per behaviour of SpecNames
MaxDeepOps == 43     \* calls and commands per behaviour of SpecDeep
MaxCreateOps == 4    \* calls and commands per behaviour of SpecCreate
MaxUpdateOps == 4    \* calls and commands per behaviour of SpecUpdate
MaxLoadOps == 4      \* calls and commands per behaviour of SpecLoad
MaxRuns == 4         \* calls of execute per behaviour
MaxScriptRuns == 2   \* scripts run per behaviour of SpecScript and of SpecRuns
MaxMessages == 2     \* messages sent per behaviour of SpecApp
MaxBuiltinRuns == 1  \* scripts run per behaviour of SpecBuiltins
MaxStackOps == 23    \* commands and calls per behaviour of SpecStacks
MaxBatchOps == 5     \* commands and calls per behaviour of SpecBatch
maxHistory == 20     \* SceneManager.maxHistory
DupOffset == 3       \* duplicateObject: position[0] + 1.5, in units of 0.5

Ids == {"a", "b"}                 \* identifiers a caller supplies
\* Values of `obj_${Date.now()}_${random}`; nothing in the code keeps a draw from
\* being an identifier that is already live.
GenIds == {"obj_1", "obj_2"}
Names == {"X", "Y", "Z"}

(***************************************************************************)
(* types.ts                                                                *)
(***************************************************************************)
AIActionType == {"CREATE", "UPDATE", "DELETE", "CLEAR", "UNDO", "REDO", "FOCUS"}

\* A CADObject as CREATE builds it.  Vector components are in units of 0.5.
CADObject(id, name, type, position, rotation, scale, color, visible, args, selected) ==
    [id |-> id, name |-> name, type |-> type, position |-> position,
     rotation |-> rotation, scale |-> scale, color |-> color,
     visible |-> visible, args |-> args, selected |-> selected]

\* objectData?: Partial<CADObject>.  present = FALSE: the command carries no
\* objectData.  fields: the properties holding a value; nulls: the properties
\* that are present and null (or undefined).
NoData == [present |-> FALSE, fields |-> << >>, nulls |-> {}]
Data(fields) == [present |-> TRUE, fields |-> fields, nulls |-> {}]
DataNull(fields, nulls) == [present |-> TRUE, fields |-> fields, nulls |-> nulls]

\* An AICommand; targetId "" stands for an absent targetId (both are falsy).
AICommand(action, targetId, objectData) ==
    [action |-> action, targetId |-> targetId, objectData |-> objectData]

\* d.f || dflt for a string property: null, undefined and "" are falsy.
StrOr(d, f, dflt) ==
    IF d.present /\ f \in DOMAIN d.fields /\ d.fields[f] # "" THEN d.fields[f] ELSE dflt

\* d.f || dflt for an array property: every array is truthy.
ArrOr(d, f, dflt) ==
    IF d.present /\ f \in DOMAIN d.fields THEN d.fields[f] ELSE dflt

(***************************************************************************)
(* The Map                                                                 *)
(***************************************************************************)
MapHas(m, k) == \E i \in 1..Len(m) : m[i].key = k

MapIndex(m, k) == CHOOSE i \in 1..Len(m) : m[i].key = k

MapGet(m, k) == m[MapIndex(m, k)].val

MapSet(m, k, v) ==
    IF MapHas(m, k)
    THEN [m EXCEPT ![MapIndex(m, k)] = [key |-> k, val |-> v]]
    ELSE Append(m, [key |-> k, val |-> v])

MapDelete(m, k) == SelectSeq(m, LAMBDA e : e.key # k)

MapValues(m) == [i \in 1..Len(m) |-> m[i].val]

(***************************************************************************)
(* SceneManager                                                            *)
(***************************************************************************)
\* The state of one SceneManager (with the ghost `past`).
State(o, h, r, p) == [objects |-> o, history |-> h, redoStack |-> r, past |-> p]

getObjects(st) == MapValues(st.objects)

\* JSON text, by what JSON.parse makes of it: kind "array" with the records in
\* order, or another kind.  The values a CADObject holds here (strings, booleans,
\* arrays of finite numbers) pass through JSON.stringify and JSON.parse as they
\* are; what the text does not keep is the Map key each record was stored under.
JsonArray(items) == [kind |-> "array", items |-> items]

\* Text that JSON.parse rejects, and the text of a value that is not an array.
JsonInvalid == [kind |-> "invalid", items |-> << >>]
JsonObject == [kind |-> "object", items |-> << >>]

\* A null element of an array; reading its id throws a TypeError.
JsonNull == [null |-> TRUE]

IsNull(x) == "null" \in DOMAIN x

exportScene(st) == JsonArray(MapValues(st.objects))

\* loaded.forEach(obj => objects.set(obj.id, obj)): the callback throws at the
\* first null element, which ends the forEach with the earlier elements stored.
RECURSIVE LoadItems(_, _)
LoadItems(m, items) ==
    IF items = << >> THEN m
    ELSE IF IsNull(Head(items)) THEN m
    ELSE LoadItems(MapSet(m, Head(items).id, Head(items)), Tail(items))

\* JSON.parse throws on invalid text and the forEach callback on a null element;
\* the catch block logs with console.error and throws nothing.
loadSceneLogs(json) ==
    \/ json.kind = "invalid"
    \/ json.kind = "array" /\ \E i \in 1..Len(json.items) : IsNull(json.items[i])

\* What the caller of loadScene sees: the method is void, and its catch block
\* lets nothing out.
loadSceneOutcome(json) == "returned"

\* objects.clear() runs once the parsed value is known to be an array, before
\* any element is read.
loadScene(st, json) ==
    IF json.kind = "array"
    THEN [st EXCEPT !.objects = LoadItems(<< >>, json.items)]
    ELSE st

\* A saveState that leaves the redo stack alone.
saveStateKeepRedo(st) ==
    LET pushed == Append(st.history, exportScene(st))
    IN  [st EXCEPT !.history = IF Len(pushed) > maxHistory THEN Tail(pushed) ELSE pushed,
                   !.past = Append(st.past, st.objects)]

\* A saveState that never drops the oldest entry.
saveStateNoShift(st) ==
    [st EXCEPT !.history = Append(st.history, exportScene(st)),
               !.redoStack = << >>,
               !.past = Append(st.past, st.objects)]

saveState(st) ==
    LET pushed == Append(st.history, exportScene(st))
    IN  [st EXCEPT !.history = IF Len(pushed) > maxHistory THEN Tail(pushed) ELSE pushed,
                   !.redoStack = << >>,
                   !.past = Append(st.past, st.objects)]

\* A counter loop that takes the number of names in use as the suffix.
NextCandidateCount(taken, baseName, counter) ==
    baseName \o ToString(Cardinality(taken))

RECURSIVE NextCandidate(_, _, _)
NextCandidate(taken, baseName, counter) ==
    IF (baseName \o ToString(counter)) \in taken
    THEN NextCandidate(taken, baseName, counter + 1)
    ELSE baseName \o ToString(counter)

\* A getUniqueName that tries the suffix 1 only.
getUniqueNameOnce(m, baseName, excl) ==
    LET taken == {m[i].val.name : i \in {j \in 1..Len(m) : m[j].val.id \notin excl}}
    IN  IF baseName \notin taken THEN baseName ELSE baseName \o ToString(1)

\* excl: {} for getUniqueName(baseName), {id} for getUniqueName(baseName, id).
getUniqueName(m, baseName, excl) ==
    LET taken == {m[i].val.name : i \in {j \in 1..Len(m) : m[j].val.id \notin excl}}
    IN  IF baseName \notin taken THEN baseName
        ELSE NextCandidate(taken, baseName, 1)

\* A renameObject that takes no snapshot.
renameObjectNoSave(st, id, newName) ==
    IF ~MapHas(st.objects, id) THEN st
    ELSE LET obj == MapGet(st.objects, id)
         IN  IF obj.name = newName THEN st
             ELSE [st EXCEPT !.objects =
                      MapSet(st.objects, id,
                             [obj EXCEPT !.name = getUniqueName(st.objects, newName, {id})])]

renameObject(st, id, newName) ==
    IF ~MapHas(st.objects, id) THEN st
    ELSE LET obj == MapGet(st.objects, id)
         IN  IF obj.name = newName THEN st
             ELSE LET s1 == saveState(st)
                      uniqueName == getUniqueName(s1.objects, newName, {id})
                  IN  [s1 EXCEPT !.objects =
                          MapSet(s1.objects, id, [obj EXCEPT !.name = uniqueName])]

duplicateObject(st, id, newId) ==
    IF ~MapHas(st.objects, id) THEN st
    ELSE LET obj == MapGet(st.objects, id)
             s1 == saveState(st)
             newPos == <<obj.position[1] + DupOffset, obj.position[2], obj.position[3]>>
             newName == getUniqueName(s1.objects, obj.name, {})
             newObj == [obj EXCEPT !.id = newId, !.name = newName,
                                   !.position = newPos, !.selected = FALSE]
         IN  [s1 EXCEPT !.objects = MapSet(s1.objects, newId, newObj)]

\* An undo without the early return: history.pop() of an empty stack is undefined
\* and nothing is loaded, but the current snapshot is pushed all the same.
undoNoGuard(st) ==
    LET pushed == Append(st.redoStack, exportScene(st))
    IN  IF Len(st.history) = 0 THEN [st EXCEPT !.redoStack = pushed]
        ELSE loadScene([st EXCEPT !.redoStack = pushed,
                                  !.history = SubSeq(st.history, 1, Len(st.history) - 1),
                                  !.past = SubSeq(st.past, 1, Len(st.past) - 1)],
                       st.history[Len(st.history)])

undo(st) ==
    IF Len(st.history) = 0 THEN st
    ELSE LET pushed == Append(st.redoStack, exportScene(st))
             previousState == st.history[Len(st.history)]
             popped == SubSeq(st.history, 1, Len(st.history) - 1)
         IN  loadScene([st EXCEPT !.redoStack = pushed, !.history = popped,
                                  !.past = SubSeq(st.past, 1, Len(st.past) - 1)],
                       previousState)

\* A redo without the early return: redoStack.pop() of an empty stack is
\* undefined and nothing is loaded, but the current snapshot is pushed on the
\* undo stack all the same.
redoNoGuard(st) ==
    LET pushed == Append(st.history, exportScene(st))
    IN  IF Len(st.redoStack) = 0
        THEN [st EXCEPT !.history = pushed, !.past = Append(st.past, st.objects)]
        ELSE loadScene([st EXCEPT !.history = pushed,
                                  !.redoStack = SubSeq(st.redoStack, 1, Len(st.redoStack) - 1),
                                  !.past = Append(st.past, st.objects)],
                       st.redoStack[Len(st.redoStack)])

redo(st) ==
    IF Len(st.redoStack) = 0 THEN st
    ELSE LET pushed == Append(st.history, exportScene(st))
             nextState == st.redoStack[Len(st.redoStack)]
             popped == SubSeq(st.redoStack, 1, Len(st.redoStack) - 1)
         IN  loadScene([st EXCEPT !.history = pushed, !.redoStack = popped,
                                  !.past = Append(st.past, st.objects)],
                       nextState)

\* cmd.targetId || cmd.objectData?.id
TargetId(cmd) ==
    IF cmd.targetId # "" THEN cmd.targetId ELSE StrOr(cmd.objectData, "id", "")

\* CREATE: only when the command carries objectData.
applyCreate(st, cmd, randomId) ==
    IF ~cmd.objectData.present THEN st
    ELSE LET d == cmd.objectData
             id == StrOr(d, "id", IF TargetId(cmd) # "" THEN TargetId(cmd) ELSE randomId)
             rawName == StrOr(d, "name", "Object")
             uniqueName == getUniqueName(st.objects, rawName, {})
             newObj == CADObject(id, uniqueName,
                           StrOr(d, "type", "BOX"),
                           ArrOr(d, "position", <<0, 0, 0>>),
                           ArrOr(d, "rotation", <<0, 0, 0>>),
                           ArrOr(d, "scale", <<2, 2, 2>>),
                           StrOr(d, "color", "#3b82f6"),
                           IF "visible" \in DOMAIN d.fields THEN d.fields.visible ELSE TRUE,
                           ArrOr(d, "args", << >>),
                           FALSE)
         IN  [st EXCEPT !.objects = MapSet(st.objects, newObj.id, newObj)]

\* existing merged with the updates: { ...existing, ...cleanUpdates }
Spread(existing, updates) ==
    [f \in (DOMAIN existing) \cup (DOMAIN updates) |->
        IF f \in DOMAIN updates THEN updates[f] ELSE existing[f]]

applyUpdate(st, cmd) ==
    LET targetId == TargetId(cmd) IN
    IF targetId = "" \/ ~MapHas(st.objects, targetId) THEN st
    ELSE LET existing == MapGet(st.objects, targetId)
             \* the entries of objectData that are neither undefined nor null
             entries == IF cmd.objectData.present THEN cmd.objectData.fields ELSE << >>
             cleanUpdates ==
                 IF "name" \in DOMAIN entries /\ entries.name # ""
                 THEN [entries EXCEPT !.name =
                          getUniqueName(st.objects, entries.name, {targetId})]
                 ELSE entries
         IN  [st EXCEPT !.objects = MapSet(st.objects, targetId, Spread(existing, cleanUpdates))]

applyDelete(st, cmd) ==
    IF TargetId(cmd) = "" THEN st
    ELSE [st EXCEPT !.objects = MapDelete(st.objects, TargetId(cmd))]

applyCommand(st, cmd, randomId) ==
    CASE cmd.action = "CREATE" -> applyCreate(st, cmd, randomId)
      [] cmd.action = "UPDATE" -> applyUpdate(st, cmd)
      [] cmd.action = "DELETE" -> applyDelete(st, cmd)
      [] cmd.action = "CLEAR"  -> [st EXCEPT !.objects = << >>]
      [] cmd.action = "UNDO"   -> undo(st)
      [] cmd.action = "REDO"   -> redo(st)
      [] OTHER                 -> st

\* A modifiesScene that counts every command.
modifiesSceneAny(commands) == commands # << >>

modifiesScene(commands) ==
    \E i \in 1..Len(commands) :
        commands[i].action \in {"CREATE", "UPDATE", "DELETE", "CLEAR"}

\* A forEach that gives up at the first DELETE or UPDATE whose target is not
\* live, as if that command had thrown.
RECURSIVE forEachAbort(_, _, _)
forEachAbort(st, commands, rnd) ==
    IF commands = << >> THEN st
    ELSE IF /\ Head(commands).action \in {"DELETE", "UPDATE"}
            /\ ~MapHas(st.objects, TargetId(Head(commands)))
         THEN st
         ELSE forEachAbort(applyCommand(st, Head(commands), Head(rnd)),
                           Tail(commands), Tail(rnd))

RECURSIVE forEach(_, _, _)
forEach(st, commands, rnd) ==
    IF commands = << >> THEN st
    ELSE forEach(applyCommand(st, Head(commands), Head(rnd)), Tail(commands), Tail(rnd))

\* rnd[i]: the value the random identifier takes if command i draws one.
processCommands(st, commands, rnd) ==
    forEach(IF modifiesScene(commands) THEN saveState(st) ELSE st, commands, rnd)

(***************************************************************************)
(* The calls a client makes, as actions                                    *)
(***************************************************************************)
Cur == State(objects, history, redoStack, past)

\* A call and, for the record, the draws of the random identifier it made, the
\* text it was given (loadScene), how it came back to its caller ("returned" or
\* "thrown") and the heights of the two stacks when it was made.
Call(op, id, name, cmds) ==
    [op |-> op, id |-> id, name |-> name, cmds |-> cmds, rnd |-> << >>,
     json |-> JsonArray(<< >>), out |-> "returned",
     h0 |-> Len(history), r0 |-> Len(redoStack)]

NameOf(m, k) == IF MapHas(m, k) THEN MapGet(m, k).name ELSE ""

OthersNamed(m, k, n) == \E i \in 1..Len(m) : m[i].key # k /\ m[i].val.name = n

\* Scenario D: a batch of one CREATE that yields an object named "X" (1), then on
\* that object rename to "Y" (2), rename to "Z" (3), undo (4), undo (5); "Y" and
\* "Z" are names no other object has when they are asked for.
ScenNext(call, st2) ==
    CASE call.op = "processCommands" /\ Len(call.cmds) = 1
            /\ call.cmds[1].action = "CREATE" /\ call.cmds[1].objectData.present
            /\ StrOr(call.cmds[1].objectData, "name", "Object") = "X"
            /\ NameOf(st2.objects, call.id) = "X"
            -> [n |-> 1, id |-> call.id]
      [] call.op = "renameObject" /\ scen.n = 1 /\ call.id = scen.id
            /\ call.name = "Y" /\ ~OthersNamed(objects, call.id, "Y")
            -> [scen EXCEPT !.n = 2]
      [] call.op = "renameObject" /\ scen.n = 2 /\ call.id = scen.id
            /\ call.name = "Z" /\ ~OthersNamed(objects, call.id, "Z")
            -> [scen EXCEPT !.n = 3]
      [] call.op = "undo" /\ scen.n \in {3, 4}
            -> [scen EXCEPT !.n = scen.n + 1]
      [] OTHER -> [n |-> 0, id |-> ""]

Step(st2, call, cost) ==
    /\ objects' = st2.objects
    /\ history' = st2.history
    /\ redoStack' = st2.redoStack
    /\ past' = st2.past
    /\ last' = call
    /\ scen' = ScenNext(call, st2)
    /\ nops' = nops + cost
    /\ UNCHANGED <<engine, app, runs>>

\* The identifier the first CREATE of the batch stores under (scenario D reads it).
FirstId(cmds, rnd) ==
    IF cmds # << >> /\ cmds[1].action = "CREATE"
    THEN StrOr(cmds[1].objectData, "id",
               IF TargetId(cmds[1]) # "" THEN TargetId(cmds[1]) ELSE rnd[1])
    ELSE ""

ProcessCommands(cmds, rnd) ==
    Step(processCommands(Cur, cmds, rnd),
         [Call("processCommands", FirstId(cmds, rnd), "", cmds) EXCEPT !.rnd = rnd],
         Len(cmds))

RenameObject(id, newName) ==
    Step(renameObject(Cur, id, newName), Call("renameObject", id, newName, << >>), 1)

DuplicateObject(id, newId) ==
    Step(duplicateObject(Cur, id, newId), Call("duplicateObject", id, newId, << >>), 1)

Undo == Step(undo(Cur), Call("undo", "", "", << >>), 1)

Redo == Step(redo(Cur), Call("redo", "", "", << >>), 1)

\* The queries assign nothing.
GetObjects == Step(Cur, Call("getObjects", "", "", << >>), 1)

GetObject(id) == Step(Cur, Call("getObject", id, "", << >>), 1)

ExportScene == Step(Cur, Call("exportScene", "", "", << >>), 1)

LoadScene(json) ==
    Step(loadScene(Cur, json),
         [Call("loadScene", "", "", << >>) EXCEPT !.json = json,
                                                  !.out = loadSceneOutcome(json)], 1)

(***************************************************************************)
(* CSGEngine.ts: the script, the context of one run, execute               *)
(***************************************************************************)
\* Numbers of a script are in units of 0.5.
DefaultSize == 2       \* width = 1, height = 1, depth = 1
DefaultRadius == 1     \* radius = 0.5, radiusTop = 0.5, radiusBottom = 0.5

\* "[x,y,z]"
Vec(v) == "[" \o ToString(v[1]) \o "," \o ToString(v[2]) \o "," \o ToString(v[3]) \o "]"

\* A brush.  type: userData.type, "null" for a brush that is null or undefined;
\* geometry: the geometry, written as the constructor call that made it;
\* color: the colour of its material, as '#' + color.getHexString() gives it.
Brush(type, geometry) ==
    [type |-> type, geometry |-> geometry, position |-> <<0, 0, 0>>,
     rotation |-> <<0, 0, 0>>, scale |-> <<1, 1, 1>>, color |-> "#cccccc"]

NullBrush == Brush("null", "")

\* The primitives.  No dimension is looked at before the geometry is built.
Box(width, height, depth) ==
    Brush("BOX", "BoxGeometry" \o Vec(<<width, height, depth>>))

Sphere(radius) ==
    Brush("SPHERE", "SphereGeometry" \o Vec(<<radius, 32, 32>>))

Cylinder(radiusTop, radiusBottom, height) ==
    Brush("CYLINDER", "CylinderGeometry" \o Vec(<<radiusTop, radiusBottom, height>>)
                          \o Vec(<<32, 0, 0>>))

\* A parameter with a default value: the i-th argument of the call if there
\* is one, else the default.
Param(args, i, dflt) == IF i <= Len(args) THEN args[i] ELSE dflt

BoxOf(args) ==
    Box(Param(args, 1, DefaultSize), Param(args, 2, DefaultSize),
        Param(args, 3, DefaultSize))

SphereOf(args) == Sphere(Param(args, 1, DefaultRadius))

CylinderOf(args) ==
    Cylinder(Param(args, 1, DefaultRadius), Param(args, 2, DefaultRadius),
             Param(args, 3, DefaultSize))

\* Move, were it to lack the guard for a brush that is null.
MoveUnguarded(mesh, x, y, z) == [mesh EXCEPT !.position = <<x, y, z>>]

\* The transformations: a brush that is null is handed back as it is.
Move(mesh, x, y, z) ==
    IF mesh.type = "null" THEN mesh ELSE [mesh EXCEPT !.position = <<x, y, z>>]

Rotate(mesh, x, y, z) ==
    IF mesh.type = "null" THEN mesh ELSE [mesh EXCEPT !.rotation = <<x, y, z>>]

Scale(mesh, x, y, z) ==
    IF mesh.type = "null" THEN mesh ELSE [mesh EXCEPT !.scale = <<x, y, z>>]

\* THREE.Color.set(hex) followed by getHexString(): the styles scripts use
\* here; a style that is no colour leaves the colour as it was.
HexString(hex, old) ==
    CASE hex = "#3b82f6" -> "#3b82f6"
      [] hex = "#FF0000" -> "#ff0000"
      [] hex = "red"     -> "#ff0000"
      [] hex = "#0f0"    -> "#00ff00"
      [] OTHER           -> old

Color(mesh, hex) ==
    IF mesh.type = "null" THEN mesh
    ELSE [mesh EXCEPT !.color = HexString(hex, mesh.color)]

\* A brush as evaluate reads it: its geometry under its world matrix.
Placed(mesh) ==
    mesh.geometry \o "@" \o Vec(mesh.position) \o Vec(mesh.rotation) \o Vec(mesh.scale)

\* evaluate, were the result to get the material of b.
evaluateRight(a, b, operation) ==
    [Brush("MESH", operation \o "(" \o Placed(a) \o "," \o Placed(b) \o ")")
        EXCEPT !.color = b.color]

\* evaluator.evaluate(a, b, operation) makes a new brush; the builtin marks it
\* as a mesh and gives it the material of a.
evaluate(a, b, operation) ==
    [Brush("MESH", operation \o "(" \o Placed(a) \o "," \o Placed(b) \o ")")
        EXCEPT !.color = a.color]

\* Union, were it to return a when an operand is missing.
UnionLeft(a, b) ==
    IF a.type = "null" \/ b.type = "null" THEN a ELSE evaluate(a, b, "ADDITION")

\* if (!a || !b) return a || b
Union(a, b) ==
    IF a.type = "null" \/ b.type = "null"
    THEN (IF a.type # "null" THEN a ELSE b)
    ELSE evaluate(a, b, "ADDITION")

Subtract(a, b) ==
    IF a.type = "null" \/ b.type = "null"
    THEN (IF a.type # "null" THEN a ELSE b)
    ELSE evaluate(a, b, "SUBTRACTION")

Intersect(a, b) ==
    IF a.type = "null" \/ b.type = "null"
    THEN (IF a.type # "null" THEN a ELSE b)
    ELSE evaluate(a, b, "INTERSECTION")

\* Values of Date.now() when Add builds an identifier.
Times == {1, 2}

\* Add, were it to put the new object first in the list.
AddFirst(ctx, mesh, name, now) ==
    IF mesh.type = "null" THEN ctx
    ELSE <<[id |-> "obj_" \o ToString(Len(ctx)) \o "_" \o ToString(now),
            name |-> name, type |-> "MESH",
            position |-> mesh.position, rotation |-> mesh.rotation,
            scale |-> mesh.scale, color |-> mesh.color,
            visible |-> TRUE, selected |-> FALSE,
            geometryData |-> mesh.geometry]>> \o ctx

\* CADContext.Add(mesh, name); now: the value of Date.now().
Add(ctx, mesh, name, now) ==
    IF mesh.type = "null" THEN ctx
    ELSE Append(ctx, [id |-> "obj_" \o ToString(Len(ctx)) \o "_" \o ToString(now),
                      name |-> name, type |-> "MESH",
                      position |-> mesh.position, rotation |-> mesh.rotation,
                      scale |-> mesh.scale, color |-> mesh.color,
                      visible |-> TRUE, selected |-> FALSE,
                      geometryData |-> mesh.geometry])

\* A value that is thrown.  kind: the class of an Error object ("Error",
\* "ReferenceError", "TypeError", "SyntaxError"), or "string" or "null" for a
\* thrown value that is no object; message: an Error's message, a string's
\* text; lineNumber: 0 where the property is not there (it is there on some
\* JavaScript engines only).
JsError(kind, message, lineNumber) ==
    [kind |-> kind, message |-> message, lineNumber |-> lineNumber]

NoError == JsError("none", "", 0)

\* The statements of a script, and a script: text that parses into a sequence
\* of statements, or text that does not parse.
\* A call of a builtin has the name of the builtin as op, its brushes
\* as mesh and b, its numbers as args and its string as name.
Statement(op, mesh, b, args, name, value) ==
    [op |-> op, mesh |-> mesh, b |-> b, args |-> args, name |-> name, value |-> value]

StAdd(mesh, name) == Statement("Add", mesh, NullBrush, << >>, name, NoError)
StThrow(value) == Statement("throw", NullBrush, NullBrush, << >>, "", value)
StLoop == Statement("while", NullBrush, NullBrush, << >>, "", NoError)
StCall(op, mesh, b, args, name) == Statement(op, mesh, b, args, name, NoError)
\* window.onerror = <handler>
StOnerror(handler) ==
    Statement("window.onerror", NullBrush, NullBrush, << >>, handler, NoError)
\* if (window.onerror) Add(mesh, name)
StIfOnerrorAdd(mesh, name) ==
    Statement("if (window.onerror)", mesh, NullBrush, << >>, name, NoError)

Script(stmts) == [parses |-> TRUE, stmts |-> stmts]
SyntaxErrorScript == [parses |-> FALSE, stmts |-> << >>]
NoScript == Script(<< >>)

\* The catch block that execute puts around the code:
\* throw new Error("Line " + (e.lineNumber || '?') + ": " + e.message).
\* Reading a property of null throws a TypeError out of the catch block; a
\* string has neither lineNumber nor message.
Rewrap(e) ==
    IF e.kind = "null"
    THEN JsError("TypeError", "Cannot read properties of null", 0)
    ELSE JsError("Error",
                 "Line " \o (IF e.lineNumber # 0 THEN ToString(e.lineNumber) ELSE "?")
                     \o ": " \o (IF e.kind = "string" THEN "undefined" ELSE e.message),
                 0)

\* How a call of execute ended.
NoOutcome == [kind |-> "none", objects |-> << >>, error |-> NoError]
Returned(list) == [kind |-> "returned", objects |-> list, error |-> NoError]
Thrown(e) == [kind |-> "thrown", objects |-> << >>, error |-> e]

\* pc: 0 when no run is in progress, else the place of the next statement;
\* ctx: CADContext.objects of the run; spin: parity of the iterations of a
\* loop; fault: the value the script threw (ghost); out: the last outcome;
\* ret: what the last call of a builtin returned (ghost).
Idle(code, out, fault) ==
    [pc |-> 0, code |-> code, ctx |-> << >>, spin |-> 0, fault |-> fault, out |-> out,
     ret |-> NullBrush]

\* The names the function body takes from ctx, const { Box, ..., Add } = ctx,
\* called with the arguments of a statement.  Add returns undefined.
Builtins ==
    {"Box", "Sphere", "Cylinder", "Move", "Rotate", "Scale", "Color",
     "Union", "Subtract", "Intersect", "Add"}

Builtin(st) ==
    CASE st.op = "Box"       -> BoxOf(st.args)
      [] st.op = "Sphere"    -> SphereOf(st.args)
      [] st.op = "Cylinder"  -> CylinderOf(st.args)
      [] st.op = "Move"      -> Move(st.mesh, st.args[1], st.args[2], st.args[3])
      [] st.op = "Rotate"    -> Rotate(st.mesh, st.args[1], st.args[2], st.args[3])
      [] st.op = "Scale"     -> Scale(st.mesh, st.args[1], st.args[2], st.args[3])
      [] st.op = "Color"     -> Color(st.mesh, st.name)
      [] st.op = "Union"     -> Union(st.mesh, st.b)
      [] st.op = "Subtract"  -> Subtract(st.mesh, st.b)
      [] st.op = "Intersect" -> Intersect(st.mesh, st.b)
      [] st.op = "Add"       -> NullBrush

\* App.tsx, handleSendMessage.  pc: "idle" when no message is being handled,
\* else what the handler is about to do or waits for: "generate" (generateScript),
\* "execute" (the first execution), "executed" (the wait before the views are
\* captured), "evaluate" (evaluateRender), "fix" (fixScript), "executeFix" (the
\* execution of the fixed script).  code: the script in hand.  Ghosts: outcome,
\* how the last message ended; looks, what evaluateRender last returned; sent,
\* the messages sent so far; inFlight, the calls of handleSendMessage that have
\* not ended; n0, start, the calls of execute made and what was shown when the
\* message came in; refused, whether the form has returned early from a
\* submit of a non-blank input.
AppInit ==
    [objects |-> << >>, currentScript |-> NoScript, error |-> "",
     onerror |-> "index.tsx",
     messages |-> << >>, isAiLoading |-> FALSE, pc |-> "idle", code |-> NoScript,
     outcome |-> "none", looks |-> "none", sent |-> 0, inFlight |-> 0, n0 |-> 0,
     refused |-> FALSE,
     start |-> [objects |-> << >>, currentScript |-> NoScript, messages |-> 0]]

\* finally { setIsAiLoading(false) }: the handler ends.
Finally(a, outcome) ==
    [a EXCEPT !.isAiLoading = FALSE, !.pc = "idle", !.outcome = outcome,
              !.inFlight = IF a.inFlight > 0 THEN a.inFlight - 1 ELSE 0]

\* catch (error): one message "Error executing design: ..." and the finally.
CatchError(a, text, outcome) ==
    Finally([a EXCEPT !.error = "Error executing design: " \o text,
                      !.messages = Append(a.messages, "Error executing design")],
            outcome)

\* A catch that also empties the scene.
AppCatchClears(a, e) ==
    [CatchError(a, "Script Execution Failed: " \o e.message, "executionFailed")
        EXCEPT !.objects = << >>]

\* execute threw e.  The catch around the first execution rethrows
\* "Script Execution Failed: ..."; the execution of the fixed script has no
\* catch of its own.  The outer catch shows the message in the chat.
AppCatch(a, e) ==
    IF a.pc = "executeFix"
    THEN CatchError(a, e.message, "fixFailed")
    ELSE CatchError(a, "Script Execution Failed: " \o e.message, "executionFailed")

\* An App that shows the new objects and keeps the script it had.
AppShowObjectsOnly(a, list, code) == [a EXCEPT !.objects = list]

\* execute returned: setObjects(executedObjects); setCurrentScript(code).
\* After the fixed script the handler adds "Auto-Fix Applied" and ends.
AppShow(a, list, code) ==
    LET shown == [a EXCEPT !.objects = list, !.currentScript = code]
    IN  CASE a.pc = "execute" -> [shown EXCEPT !.pc = "executed"]
          [] a.pc = "executeFix" ->
                Finally([shown EXCEPT !.messages = Append(a.messages, "Auto-Fix Applied")],
                        "fixed")
          [] OTHER -> shown

\* execute(code) is called: new Function(...) throws a SyntaxError for text
\* that does not parse; otherwise the function starts with a new CADContext.
Execute(code) ==
    /\ engine.pc = 0
    /\ nops < MaxRuns
    /\ nops' = nops + 1
    /\ IF code.parses
       THEN /\ engine' = [pc |-> 1, code |-> code, ctx |-> << >>, spin |-> 0,
                          fault |-> NoError, out |-> NoOutcome, ret |-> NullBrush]
            /\ app' = app
       ELSE LET e == JsError("SyntaxError", "Unexpected token", 0)
            IN  /\ engine' = Idle(code, Thrown(e), e)
                /\ app' = AppCatch(app, e)
    /\ UNCHANGED <<objects, history, redoStack, past, last, scen, runs>>

\* The next statement of the running script.  The function new Function
\* makes runs in the global scope: a statement can name the window.
RunStatement(now) ==
    /\ engine.pc \in 1..Len(engine.code.stmts)
    /\ LET st == engine.code.stmts[engine.pc]
       IN  CASE st.op = "Add" ->
                   /\ engine' = [engine EXCEPT !.ctx = Add(engine.ctx, st.mesh, st.name, now),
                                               !.pc = engine.pc + 1,
                                               !.ret = Builtin(st)]
                   /\ app' = app
             [] st.op \in Builtins \ {"Add"} ->
                   /\ engine' = [engine EXCEPT !.ret = Builtin(st), !.pc = engine.pc + 1]
                   /\ app' = app
             [] st.op = "if (window.onerror)" ->
                   /\ engine' = [engine EXCEPT
                          !.ctx = IF app.onerror # "null"
                                  THEN Add(engine.ctx, st.mesh, st.name, now)
                                  ELSE engine.ctx,
                          !.pc = engine.pc + 1]
                   /\ app' = app
             [] st.op = "window.onerror" ->
                   /\ engine' = [engine EXCEPT !.pc = engine.pc + 1]
                   /\ app' = [app EXCEPT !.onerror = st.name]
             [] st.op = "throw" ->
                   /\ engine' = Idle(engine.code, Thrown(Rewrap(st.value)), st.value)
                   /\ app' = AppCatch(app, Rewrap(st.value))
             [] st.op = "while" ->
                   /\ engine' = [engine EXCEPT !.spin = 1 - engine.spin]
                   /\ app' = app
    /\ UNCHANGED <<objects, history, redoStack, past, last, scen, nops, runs>>

\* return context.getResults(), and the App takes the list.
Return ==
    /\ engine.pc = Len(engine.code.stmts) + 1
    /\ engine' = Idle(engine.code, Returned(engine.ctx), NoError)
    /\ app' = AppShow(app, engine.ctx, engine.code)
    /\ runs' = Append(runs, [code |-> engine.code, objects |-> engine.ctx])
    /\ UNCHANGED <<objects, history, redoStack, past, last, scen, nops>>

(***************************************************************************)
(* App.handleSendMessage and the form of the ChatInterface                 *)
(***************************************************************************)
\* input.trim(), for the inputs of the model
Trim(input) == IF input \in {"", " "} THEN "" ELSE input

CanSubmitAlways(input, isLoading) == Trim(input) # ""

\* ChatInterface.handleSubmit: if (!input.trim() || isLoading) return
CanSubmit(input, isLoading) == Trim(input) # "" /\ ~isLoading

AppStep(a) ==
    /\ app' = a
    /\ UNCHANGED <<objects, history, redoStack, past, last, scen, nops, engine, runs>>

\* The form is submitted.  isLoading is the isAiLoading the form was last
\* rendered with; React renders again before the next event is handled.
\* handleSendMessage up to its first await: the message of the user is added
\* and isAiLoading set.
HandleSubmit(input) ==
    IF ~CanSubmit(input, app.isAiLoading)
    THEN AppStep([app EXCEPT !.refused = app.refused \/ Trim(input) # ""])
    ELSE AppStep([app EXCEPT !.messages = Append(app.messages, "user"),
                             !.isAiLoading = TRUE,
                             !.pc = "generate",
                             !.sent = app.sent + 1,
                             !.inFlight = app.inFlight + 1,
                             !.n0 = nops,
                             !.start = [objects |-> app.objects,
                                        currentScript |-> app.currentScript,
                                        messages |-> Len(app.messages)]])

\* await geminiService.generateScript(userText, currentScript) returns a
\* script; the first execution comes next.
GenerateScript(code) ==
    /\ app.pc = "generate"
    /\ AppStep([app EXCEPT !.pc = "execute", !.code = code])

\* ... or it throws.
GenerateScriptFails ==
    /\ app.pc = "generate"
    /\ AppStep(CatchError(app, "No response from AI", "generationFailed"))

\* executedObjects = csgEngine.execute(code)
ExecuteFirst ==
    /\ app.pc = "execute"
    /\ Execute(app.code)

\* if (viewerRef.current && executedObjects.length > 0): after the wait the
\* views are captured and the message "(Verifying visuals...)" is added;
\* else the explanation is added and the handler ends.
CaptureViews(viewer) ==
    /\ app.pc = "executed"
    /\ IF viewer /\ Len(app.objects) > 0
       THEN AppStep([app EXCEPT !.messages = Append(app.messages, "Verifying visuals"),
                                !.pc = "evaluate"])
       ELSE AppStep(Finally([app EXCEPT !.messages = Append(app.messages, "explanation")],
                            "plain"))

\* What evaluateRender can return as looksCorrect: parsed.looksCorrect, which
\* the response may lack, or true when the check did not run.
LooksCorrect == {"true", "false", "undefined"}

\* A test that sends every analysis to the auto-fix.
NotAlways(looksCorrect) == TRUE

\* !analysis.looksCorrect
Not(looksCorrect) == looksCorrect \in {"false", "undefined"}

\* await visualFeedbackService.evaluateRender(userText, views) returns; the
\* message added before is rewritten.
EvaluateRender(looksCorrect) ==
    /\ app.pc = "evaluate"
    /\ LET n == Len(app.messages)
       IN  IF Not(looksCorrect)
           THEN AppStep([app EXCEPT !.messages[n] = "Visual Issue Detected",
                                    !.looks = looksCorrect,
                                    !.pc = "fix"])
           ELSE AppStep(Finally([app EXCEPT !.messages[n] = "Visuals Verified",
                                            !.looks = looksCorrect],
                                "verified"))

\* await geminiService.fixScript(...) returns a script, which is executed.
FixScript(code) ==
    /\ app.pc = "fix"
    /\ AppStep([app EXCEPT !.pc = "executeFix", !.code = code])

FixScriptFails ==
    /\ app.pc = "fix"
    /\ AppStep(CatchError(app, "No response from AI", "fixFailed"))

\* executedObjects = csgEngine.execute(fixed.code)
ExecuteFix ==
    /\ app.pc = "executeFix"
    /\ Execute(app.code)

\* The script of the initial load effect.
StarterCube ==
    Script(<<StCall("Box", NullBrush, NullBrush, <<2, 2, 2>>, ""),
             StCall("Color", Box(2, 2, 2), NullBrush, << >>, "#3b82f6"),
             StAdd(Color(Box(2, 2, 2), "#3b82f6"), "Starter Cube")>>)

\* useEffect(..., []): csgEngine.execute(initialScript) once, after the first
\* render.
InitialLoad ==
    /\ runs = << >>
    /\ app.sent = 0
    /\ Execute(StarterCube)

Init ==
    /\ objects = << >>
    /\ history = << >>
    /\ redoStack = << >>
    /\ past = << >>
    /\ last = Call("new", "", "", << >>)
    /\ scen = [n |-> 0, id |-> ""]
    /\ nops = 0
    /\ engine = Idle(NoScript, NoOutcome, NoError)
    /\ app = AppInit
    /\ runs = << >>

(***************************************************************************)
(* Spec: every call, on a small pool of commands                           *)
(***************************************************************************)
Create(id, name) == AICommand("CREATE", "", Data([id |-> id, name |-> name]))

Commands ==
    { Create("a", "X"), Create("b", "X"),
      AICommand("UPDATE", "a", Data([id |-> "b"])),
      AICommand("DELETE", "a", NoData),
      AICommand("CLEAR", "", NoData),
      AICommand("UNDO", "", NoData),
      AICommand("REDO", "", NoData),
      AICommand("FOCUS", "a", NoData) }

SeqsUpTo(S, n) == UNION {[1..k -> S] : k \in 1..n}

\* The batches that fit into what is left of the budget.
Batches(pool, budget) == IF nops < budget THEN SeqsUpTo(pool, budget - nops) ELSE {}

\* One draw per command; only a CREATE without id and targetId reads its draw.
DrawsRandom(cmd) ==
    cmd.action = "CREATE" /\ cmd.objectData.present
        /\ StrOr(cmd.objectData, "id", "") = "" /\ cmd.targetId = ""

Draws(cmds) ==
    {rnd \in [1..Len(cmds) -> GenIds] :
        \A i \in 1..Len(cmds) : ~DrawsRandom(cmds[i]) => rnd[i] = "obj_1"}

Next ==
    \/ \E cmds \in Batches(Commands, MaxOps) : \E rnd \in Draws(cmds) :
           ProcessCommands(cmds, rnd)
    \/ \E id \in Ids, newName \in {"X", "Y"} : nops < MaxOps /\ RenameObject(id, newName)
    \/ \E id \in {"a"}, newId \in GenIds : nops < MaxOps /\ DuplicateObject(id, newId)
    \/ nops < MaxOps /\ Undo
    \/ nops < MaxOps /\ Redo
    \/ nops < MaxOps /\ GetObjects
    \/ \E id \in {"a"} : nops < MaxOps /\ GetObject(id)
    \/ nops < MaxOps /\ ExportScene

Spec == Init /\ [][Next]_vars

(***************************************************************************)
(* SpecEdits: longer behaviours over fewer commands, with no UNDO or REDO   *)
(* command inside a batch                                                  *)
(***************************************************************************)
EditCommands ==
    {c \in Commands : c.action \in {"CREATE", "UPDATE", "DELETE"}}

NextEdits ==
    \/ \E cmds \in Batches(EditCommands, MaxEditOps) : \E rnd \in Draws(cmds) :
           ProcessCommands(cmds, rnd)
    \/ \E id \in {"a"}, newName \in {"Y"} : nops < MaxEditOps /\ RenameObject(id, newName)
    \/ \E id \in {"b"}, newId \in {"obj_1"} :
           nops < MaxEditOps /\ DuplicateObject(id, newId)
    \/ nops < MaxEditOps /\ Undo
    \/ nops < MaxEditOps /\ Redo

SpecEdits == Init /\ [][NextEdits]_vars

(***************************************************************************)
(* SpecNames: CREATE commands, renameObject, duplicateObject, undo, redo    *)
(***************************************************************************)
NameCommands == {Create("a", "X"), Create("b", "X")}

NextNames ==
    \/ \E cmds \in Batches(NameCommands, MaxNameOps) : \E rnd \in Draws(cmds) :
           ProcessCommands(cmds, rnd)
    \/ \E id \in Ids, newName \in Names \cup {"X1"} :
           nops < MaxNameOps /\ RenameObject(id, newName)
    \/ \E id \in Ids, newId \in GenIds : nops < MaxNameOps /\ DuplicateObject(id, newId)
    \/ nops < MaxNameOps /\ Undo
    \/ nops < MaxNameOps /\ Redo

SpecNames == Init /\ [][NextNames]_vars

(***************************************************************************)
(* SpecDeep: one object, created by the first call and renamed back and    *)
(* forth, deep enough to fill the undo stack past maxHistory and to undo   *)
(* it all again                                                            *)
(***************************************************************************)
NextDeep ==
    \/ /\ nops < MaxDeepOps
       /\ objects = << >> /\ redoStack = << >>
       /\ ProcessCommands(<<Create("a", "X")>>, <<"obj_1">>)
    \/ \E newName \in {"X", "Y"} : nops < MaxDeepOps /\ RenameObject("a", newName)
    \/ nops < MaxDeepOps /\ Undo
    \/ nops < MaxDeepOps /\ Redo

SpecDeep == Init /\ [][NextDeep]_vars

(***************************************************************************)
(* SpecCreate: batches of CREATE commands with and without a name and an   *)
(* id                                                                      *)
(***************************************************************************)
CreateCommands ==
    { Create("a", "X"), Create("b", "X2"),
      AICommand("CREATE", "", Data([name |-> "X"])),
      AICommand("CREATE", "b", Data([name |-> ""])),
      AICommand("CREATE", "a", Data(<< >>)) }

NextCreate ==
    \/ \E cmds \in Batches(CreateCommands, MaxCreateOps) : \E rnd \in Draws(cmds) :
           ProcessCommands(cmds, rnd)

SpecCreate == Init /\ [][NextCreate]_vars

(***************************************************************************)
(* SpecUpdate: UPDATE commands that carry a name (a string, the empty      *)
(* string, null) and no id                                                 *)
(***************************************************************************)
UpdateCommands ==
    { Create("a", "X"), Create("b", "X"),
      AICommand("UPDATE", "a", Data([name |-> ""])),
      AICommand("UPDATE", "b", Data([name |-> ""])),
      AICommand("UPDATE", "b", Data([name |-> "X", color |-> "#ff0000"])),
      AICommand("UPDATE", "a", DataNull([visible |-> FALSE], {"name"})) }

NextUpdate ==
    \/ \E cmds \in Batches(UpdateCommands, MaxUpdateOps) : \E rnd \in Draws(cmds) :
           ProcessCommands(cmds, rnd)
    \/ nops < MaxUpdateOps /\ Undo
    \/ nops < MaxUpdateOps /\ Redo

SpecUpdate == Init /\ [][NextUpdate]_vars

(***************************************************************************)
(* SpecLoad: loadScene with well-formed and malformed snapshots             *)
(***************************************************************************)
\* A record of a snapshot, as CREATE with defaults would have stored it.
Record(id, name) ==
    CADObject(id, name, "BOX", <<0, 0, 0>>, <<0, 0, 0>>, <<2, 2, 2>>, "#3b82f6",
              TRUE, << >>, FALSE)

Snapshots ==
    { JsonInvalid, JsonObject,
      JsonArray(<<JsonNull>>),
      JsonArray(<<Record("b", "Y"), JsonNull, Record("a", "Z")>>),
      JsonArray(<<Record("b", "Y")>>) }

NextLoad ==
    \/ \E cmds \in Batches(NameCommands, MaxLoadOps) : \E rnd \in Draws(cmds) :
           ProcessCommands(cmds, rnd)
    \/ \E json \in Snapshots : nops < MaxLoadOps /\ LoadScene(json)
    \/ nops < MaxLoadOps /\ Undo
    \/ nops < MaxLoadOps /\ Redo

SpecLoad == Init /\ [][NextLoad]_vars

(***************************************************************************)
(* SpecScript: scripts run by the engine for the App; SpecScriptFair: the  *)
(* same, where a script that has a next statement gets to run it           *)
(***************************************************************************)
TwoCubes == Script(<<StAdd(Box(1, 1, 1), "Cube"), StAdd(Box(1, 1, 1), "Cube")>>)

Scripts ==
    { TwoCubes,
      SyntaxErrorScript,
      Script(<<StAdd(NullBrush, "Ghost"), StAdd(Box(1, 1, 1), "Part")>>),
      Script(<<StAdd(Box(1, 1, 1), "Part"), StThrow(JsError("Error", "boom", 0))>>),
      Script(<<StThrow(JsError("ReferenceError", "Torus is not defined", 3))>>),
      Script(<<StAdd(Box(1, 1, 1), "Part"), StThrow(JsError("string", "boom", 0))>>),
      Script(<<StThrow(JsError("null", "", 0))>>),
      Script(<<StAdd(Box(1, 1, 1), "Part"), StLoop>>) }

NextScript ==
    \/ \E code \in Scripts : nops < MaxScriptRuns /\ Execute(code)
    \/ \E now \in Times : RunStatement(now)
    \/ Return

SpecScript == Init /\ [][NextScript]_vars

SpecScriptFair ==
    SpecScript /\ WF_vars(\E now \in Times : RunStatement(now)) /\ WF_vars(Return)

(***************************************************************************)
(* SpecBuiltins: one call of a builtin, and what it returns handed to Add; *)
(* SpecRuns: scripts of several builtins, run one after another            *)
(***************************************************************************)
RedBox == Color(Box(2, 2, 2), "red")
GreenBall == Move(Color(Sphere(1), "#0f0"), 1, 0, 0)

Operands == {NullBrush, RedBox, GreenBall}

Booleans == {"Union", "Subtract", "Intersect"}
Transformations == {"Move", "Rotate", "Scale", "Color"}
Primitives == {"Box", "Sphere", "Cylinder"}

\* The dimensions given to a primitive: none, some, and some that are
\* negative or zero.
Dimensions == {<< >>, <<3>>, <<-1>>, <<2, -2, 2>>, <<0, 1, 1>>}

\* const r = <call>; Add(r, name)
CallThenAdd(call, name) == Script(<<call, StAdd(Builtin(call), name)>>)

Calls ==
    {StCall(f, a, b, << >>, "") : f \in Booleans, a \in Operands, b \in Operands}
    \cup {StCall(f, a, NullBrush, <<1, 2, 3>>, "#3b82f6") :
              f \in Transformations, a \in Operands}
    \cup {StCall(f, NullBrush, NullBrush, args, "") :
              f \in Primitives, args \in Dimensions}
    \cup {StCall(f, evaluate(RedBox, GreenBall, "SUBTRACTION"), Box(1, 1, 1), << >>, "") :
              f \in Booleans}
    \cup {StCall(f, Box(1, 1, 1), evaluate(RedBox, GreenBall, "ADDITION"), << >>, "") :
              f \in Booleans}

Programs == {CallThenAdd(call, "Part") : call \in Calls}

NextBuiltins ==
    \/ \E code \in Programs : nops < MaxBuiltinRuns /\ Execute(code)
    \/ \E now \in Times : RunStatement(now)
    \/ Return

SpecBuiltins == Init /\ [][NextBuiltins]_vars

Bracket ==
    Script(<<StAdd(RedBox, "Plate"), StAdd(NullBrush, "Ghost"),
             StAdd(Subtract(RedBox, GreenBall), "Plate"),
             StAdd(Scale(GreenBall, 2, 2, 2), "Ball")>>)

Reruns ==
    { Bracket,
      TwoCubes,
      Script(<<StAdd(Union(GreenBall, RedBox), "Part")>>),
      Script(<<StIfOnerrorAdd(Rotate(CylinderOf(<< >>), 0, 0, 3), "Axle"),
               StOnerror("null")>>),
      Script(<<StAdd(NullBrush, "Ghost")>>),
      Script(<<StAdd(Box(1, 1, 1), "Part"), StThrow(JsError("Error", "boom", 0))>>) }

NextRuns ==
    \/ \E code \in Reruns : nops < MaxScriptRuns /\ Execute(code)
    \/ \E now \in Times : RunStatement(now)
    \/ Return

SpecRuns == Init /\ [][NextRuns]_vars

(***************************************************************************)
(* SpecStacks: one object, created by the first call, and batches that     *)
(* clear the scene and also undo and redo, deep enough to fill the undo    *)
(* stack                                                                   *)
(***************************************************************************)
StackBatches ==
    { <<AICommand("CLEAR", "", NoData)>>,
      <<AICommand("CLEAR", "", NoData), AICommand("UNDO", "", NoData)>>,
      <<AICommand("CLEAR", "", NoData), AICommand("UNDO", "", NoData),
        AICommand("REDO", "", NoData)>>,
      <<AICommand("REDO", "", NoData)>>,
      <<AICommand("UNDO", "", NoData)>> }

NextStacks ==
    \/ /\ nops = 0
       /\ ProcessCommands(<<Create("a", "X")>>, <<"obj_1">>)
    \/ \E cmds \in StackBatches :
           /\ nops \in 1..(MaxStackOps - Len(cmds))
           /\ ProcessCommands(cmds, <<"obj_1", "obj_1", "obj_1">>)
    \/ nops \in 1..(MaxStackOps - 1) /\ Undo
    \/ nops \in 1..(MaxStackOps - 1) /\ Redo

SpecStacks == Init /\ [][NextStacks]_vars

(***************************************************************************)
(* SpecBatch: batches that create, update, do nothing and undo             *)
(***************************************************************************)
BatchCommands ==
    { Create("a", "X"), Create("b", "X"),
      AICommand("UPDATE", "a", Data([id |-> "b"])),
      AICommand("CREATE", "", NoData),
      AICommand("UNDO", "", NoData) }

NextBatch ==
    \/ \E cmds \in Batches(BatchCommands, MaxBatchOps) :
           ProcessCommands(cmds, [i \in 1..Len(cmds) |-> "obj_1"])
    \/ nops < MaxBatchOps /\ Undo
    \/ nops < MaxBatchOps /\ Redo

SpecBatch == Init /\ [][NextBatch]_vars

(***************************************************************************)
(* SpecApp: the App after its first render: the initial load, then         *)
(* messages sent through the form, each while two calls of execute are     *)
(* left of MaxRuns; SpecAppFair: the same, where the services answer and a *)
(* script that has a next statement gets to run it                         *)
(***************************************************************************)
Inputs == {"", "Cut a hole"}

Generated ==
    { TwoCubes,
      SyntaxErrorScript,
      Script(<<StAdd(NullBrush, "Ghost")>>),
      Script(<<StAdd(Box(1, 1, 1), "Part"), StThrow(JsError("Error", "boom", 0))>>),
      Script(<<StAdd(Box(1, 1, 1), "Part"), StLoop>>) }

Fixes ==
    { Script(<<StAdd(Subtract(RedBox, GreenBall), "Plate")>>),
      Script(<<StThrow(JsError("ReferenceError", "Torus is not defined", 3))>>) }

NextApp ==
    \/ InitialLoad
    \/ \E input \in Inputs :
           /\ runs # << >>
           /\ app.sent < MaxMessages
           /\ nops + 2 <= MaxRuns
           /\ HandleSubmit(input)
    \/ \E code \in Generated : GenerateScript(code)
    \/ GenerateScriptFails
    \/ ExecuteFirst
    \/ \E viewer \in BOOLEAN : CaptureViews(viewer)
    \/ \E looksCorrect \in LooksCorrect : EvaluateRender(looksCorrect)
    \/ \E code \in Fixes : FixScript(code)
    \/ FixScriptFails
    \/ ExecuteFix
    \/ \E now \in Times : RunStatement(now)
    \/ Return

SpecApp == Init /\ [][NextApp]_vars

SpecAppFair ==
    /\ SpecApp
    /\ WF_vars(\E code \in Generated : GenerateScript(code))
    /\ WF_vars(ExecuteFirst)
    /\ WF_vars(\E viewer \in BOOLEAN : CaptureViews(viewer))
    /\ WF_vars(\E looksCorrect \in LooksCorrect : EvaluateRender(looksCorrect))
    /\ WF_vars(\E code \in Fixes : FixScript(code))
    /\ WF_vars(ExecuteFix)
    /\ WF_vars(\E now \in Times : RunStatement(now))
    /\ WF_vars(Return)

(***************************************************************************)
(* k calls of undo, k calls of redo                                        *)
(***************************************************************************)
RECURSIVE UndoN(_, _)
UndoN(st, k) == IF k = 0 THEN st ELSE UndoN(undo(st), k - 1)

RECURSIVE RedoN(_, _)
RedoN(st, k) == IF k = 0 THEN st ELSE RedoN(redo(st), k - 1)

(***************************************************************************)
(* C1  Name uniqueness.  In every state reached by batches of CREATE        *)
(* commands, renameObject, duplicateObject, undo and redo, no two live     *)
(* objects have the same name.                                             *)
(***************************************************************************)
NamesUnique ==
    \A i, j \in 1..Len(objects) :
        objects[i].val.name = objects[j].val.name => i = j

\* Three live objects, after a CREATE took a suffix ("X1") and a duplicate was made.
NamesUniqueWitness ==
    /\ last.op = "duplicateObject"
    /\ Len(objects) >= 3
    /\ \E i \in 1..Len(objects) : objects[i].val.name = "X1"
    /\ history # << >>

(***************************************************************************)
(* C2  Undo/redo exactness.  After n <= 20 snapshotted operations from an  *)
(* empty history (past holds the document before each of them), k <= n     *)
(* calls of undo leave the records the document had after operation n - k, *)
(* and k calls of redo after them leave the records it had after           *)
(* operation n.                                                            *)
(***************************************************************************)
DocAfter(i) == IF i = Len(past) THEN MapValues(objects) ELSE MapValues(past[i + 1])

UndoRedoExact ==
    (Len(past) <= maxHistory /\ Len(history) = Len(past)) =>
        \A k \in 0..Len(past) :
            /\ getObjects(UndoN(Cur, k)) = DocAfter(Len(past) - k)
            /\ getObjects(RedoN(UndoN(Cur, k), k)) = getObjects(Cur)

(***************************************************************************)
(* C4  Round trip.  In every reachable state loadScene(exportScene())      *)
(* leaves the same records (count, ids, names, fields) in the same order.  *)
(***************************************************************************)
RoundTrip == getObjects(loadScene(Cur, exportScene(Cur))) = getObjects(Cur)

(***************************************************************************)
(* C3  Bounded history.  The undo stack never holds more than maxHistory   *)
(* snapshots, so the 21st undo in a row changes nothing; the entries it    *)
(* holds are the newest ones, in order (the oldest is evicted first); and  *)
(* once 21 snapshotted operations lie on the timeline (past and redoStack  *)
(* together), no number of undo calls brings back the document that        *)
(* preceded the first operation.                                           *)
(***************************************************************************)
BoundedHistory ==
    /\ Len(history) <= maxHistory
    /\ UndoN(Cur, maxHistory + 1) = UndoN(Cur, maxHistory)
    /\ Len(history) <= Len(past)
    /\ \A i \in 1..Len(history) :
           history[i] = JsonArray(MapValues(past[Len(past) - Len(history) + i]))
    /\ (Len(past) + Len(redoStack) > maxHistory /\ Len(past) > 0) =>
           \A k \in 0..(Len(past) + 1) :
               getObjects(UndoN(Cur, k)) # MapValues(past[1])

\* 21 snapshotted operations, then 21 calls of undo: the last one found the undo
\* stack empty, and the object created by the first operation is still there.
BoundedHistoryWitness ==
    /\ last.op = "undo"
    /\ nops = 2 * maxHistory + 2
    /\ history = << >>
    /\ Len(redoStack) = maxHistory
    /\ Len(past) = 1
    /\ objects # << >>

(***************************************************************************)
(* The call that made a step, read from the ghost `last` of the new state  *)
(* and the document of the old one                                         *)
(***************************************************************************)
HasAction(cmds, actions) == \E i \in 1..Len(cmds) : cmds[i].action \in actions

\* a renameObject that changed a name
RenamedStep ==
    /\ last'.op = "renameObject"
    /\ MapHas(objects, last'.id)
    /\ NameOf(objects', last'.id) # NameOf(objects, last'.id)

\* a duplicateObject of a live object
DuplicatedStep == last'.op = "duplicateObject" /\ MapHas(objects, last'.id)

\* a batch with at least one CREATE, UPDATE, DELETE or CLEAR command
MutatingBatchStep == last'.op = "processCommands" /\ modifiesScene(last'.cmds)

(***************************************************************************)
(* C5 (as stated)  Right after a renameObject that changes a name, a       *)
(* duplicateObject of a live object, or a batch with at least one CREATE,  *)
(* UPDATE, DELETE or CLEAR command, the redo stack is empty and redo() is  *)
(* a no-op.                                                                *)
(***************************************************************************)
RedoClearedByEveryEdit ==
    [][(RenamedStep \/ DuplicatedStep \/ MutatingBatchStep) =>
          (redoStack' = << >> /\ redo(Cur') = Cur')]_vars

(***************************************************************************)
(* C5 (amended)  The same, for a batch that holds no UNDO command.         *)
(***************************************************************************)
RedoClearedByEdit ==
    [][(\/ RenamedStep
        \/ DuplicatedStep
        \/ MutatingBatchStep /\ ~HasAction(last'.cmds, {"UNDO"})) =>
          (redoStack' = << >> /\ redo(Cur') = Cur')]_vars

\* An edit made while the redo stack held an entry: it is empty now.
RedoClearedWitness ==
    /\ last.r0 > 0
    /\ redoStack = << >>
    /\ \/ last.op = "renameObject" /\ history # << >> /\ NameOf(objects, last.id) = last.name
       \/ last.op = "processCommands" /\ modifiesScene(last.cmds)
              /\ ~HasAction(last.cmds, {"UNDO"}) /\ HasAction(last.cmds, {"REDO"})

(***************************************************************************)
(* C6  A batch is one logical edit.  A batch with at least one CREATE,     *)
(* UPDATE, DELETE or CLEAR command pushes exactly one snapshot, that of    *)
(* the pre-batch document, and a single undo() after the batch leaves the  *)
(* records the document had before the batch.                             *)
(***************************************************************************)
BatchIsOneEdit ==
    [][MutatingBatchStep =>
          /\ history' = Append(history, exportScene(Cur))
          /\ getObjects(undo(Cur')) = getObjects(Cur)]_vars

(***************************************************************************)
(* C7  undo() on a non-empty undo stack pushes the current snapshot onto   *)
(* the redo stack, removes the newest undo entry and leaves a document     *)
(* equal to that entry; redo() does the same with the stacks exchanged.    *)
(***************************************************************************)
UndoRedoSteps ==
    [][/\ (last'.op = "undo" /\ history # << >>) =>
              /\ redoStack' = Append(redoStack, exportScene(Cur))
              /\ history' = SubSeq(history, 1, Len(history) - 1)
              /\ exportScene(Cur') = history[Len(history)]
       /\ (last'.op = "redo" /\ redoStack # << >>) =>
              /\ history' = Append(history, exportScene(Cur))
              /\ redoStack' = SubSeq(redoStack, 1, Len(redoStack) - 1)
              /\ exportScene(Cur') = redoStack[Len(redoStack)]]_vars

(***************************************************************************)
(* C8  undo() on an empty undo stack and redo() on an empty redo stack     *)
(* leave the document and both stacks unchanged.                           *)
(***************************************************************************)
UndoRedoNoop ==
    [][/\ (last'.op = "undo" /\ history = << >>) =>
              UNCHANGED <<objects, history, redoStack>>
       /\ (last'.op = "redo" /\ redoStack = << >>) =>
              UNCHANGED <<objects, history, redoStack>>]_vars

\* undo() was called on an empty undo stack while the document held an object and
\* the redo stack an entry.
UndoRedoNoopWitness ==
    /\ last.op = "undo"
    /\ last.h0 = 0
    /\ objects # << >>
    /\ redoStack # << >>

(***************************************************************************)
(* C9  A batch of FOCUS commands only, and the queries getObjects,         *)
(* getObject and exportScene, leave the document and both stacks           *)
(* unchanged.                                                              *)
(***************************************************************************)
FocusAndQueriesFrame ==
    [][(\/ last'.op \in {"getObjects", "getObject", "exportScene"}
        \/ /\ last'.op = "processCommands"
           /\ \A i \in 1..Len(last'.cmds) : last'.cmds[i].action = "FOCUS") =>
          UNCHANGED <<objects, history, redoStack>>]_vars

\* A FOCUS batch ran on a document with an object while both stacks held an entry.
FocusAndQueriesWitness ==
    /\ last.op = "processCommands"
    /\ last.cmds # << >>
    /\ \A i \in 1..Len(last.cmds) : last.cmds[i].action = "FOCUS"
    /\ objects # << >>
    /\ history # << >>
    /\ redoStack # << >>

(***************************************************************************)
(* C10  Scenario D.  After a CREATE that names an object "X", a rename to  *)
(* "Y" and a rename to "Z", the name is "Z"; one undo() makes it "Y"; a    *)
(* second undo() makes it "X", and the object is still live.               *)
(***************************************************************************)
ScenarioD ==
    /\ scen.n = 3 => NameOf(objects, scen.id) = "Z"
    /\ scen.n = 4 => NameOf(objects, scen.id) = "Y"
    /\ scen.n = 5 => MapHas(objects, scen.id) /\ NameOf(objects, scen.id) = "X"

\* The whole scenario has run: the create's snapshot is still on the undo stack.
ScenarioDWitness == scen.n = 5 /\ history # << >> /\ Len(redoStack) = 2


(***************************************************************************)
(* C11  CREATE naming.  Every CREATE command that carries objectData, at   *)
(* any place of a batch, stores an object whose name is the proposed name  *)
(* if no object live just before the command has it, and otherwise the     *)
(* proposed name followed by the least n >= 1 such that name+n is not the  *)
(* name of a live object; an empty or absent proposed name counts as       *)
(* "Object".                                                               *)
(***************************************************************************)
LiveNames(m) == {m[i].val.name : i \in 1..Len(m)}

\* The state the commands of the step's batch start from, and the state after
\* the first k of them.
BatchStart == IF modifiesScene(last'.cmds) THEN saveState(Cur) ELSE Cur

BatchAt(k) == forEach(BatchStart, SubSeq(last'.cmds, 1, k), SubSeq(last'.rnd, 1, k))

ProposedName(cmd) ==
    LET f == cmd.objectData.fields
    IN  IF "name" \in DOMAIN f /\ f.name # "" THEN f.name ELSE "Object"

CreatedId(cmd, r) ==
    LET f == cmd.objectData.fields
    IN  IF "id" \in DOMAIN f /\ f.id # "" THEN f.id
        ELSE IF cmd.targetId # "" THEN cmd.targetId ELSE r

ExpectedName(taken, p) ==
    IF p \notin taken THEN p
    ELSE p \o ToString(CHOOSE n \in 1..(Cardinality(taken) + 1) :
                          /\ (p \o ToString(n)) \notin taken
                          /\ \A k \in 1..(n - 1) : (p \o ToString(k)) \in taken)

CreateNaming ==
    [][last'.op = "processCommands" =>
          /\ BatchAt(Len(last'.cmds)).objects = objects'
          /\ \A i \in 1..Len(last'.cmds) :
                (last'.cmds[i].action = "CREATE" /\ last'.cmds[i].objectData.present) =>
                    \E pre \in {BatchAt(i - 1).objects}, post \in {BatchAt(i).objects} :
                        LET id == CreatedId(last'.cmds[i], last'.rnd[i])
                        IN  /\ MapHas(post, id)
                            /\ MapGet(post, id).name =
                                   ExpectedName(LiveNames(pre), ProposedName(last'.cmds[i]))]_vars

\* The last CREATE of a batch proposed "X" without an id and took "X1", the
\* least free suffix, while "X" and "X2" were live.
CreateNamingWitness ==
    /\ last.op = "processCommands"
    /\ last.cmds[Len(last.cmds)] = AICommand("CREATE", "", Data([name |-> "X"]))
    /\ Len(objects) = 3
    /\ objects[3].val.name = "X1"
    /\ {"X", "X2"} \subseteq LiveNames(objects)

(***************************************************************************)
(* C12  renameObject(id, newName).  When id is not live or newName is the  *)
(* object's current name, the document and both stacks are unchanged.      *)
(* Otherwise the object's name becomes newName if no other live object has *)
(* it, else newName with the least suffix free among the other live        *)
(* objects; its other fields, the other objects and the order stay as      *)
(* they were.                                                              *)
(***************************************************************************)
OtherNames(m, k) == {m[i].val.name : i \in {j \in 1..Len(m) : m[j].key # k}}

RenameContract ==
    [][last'.op = "renameObject" =>
          IF ~MapHas(objects, last'.id) \/ NameOf(objects, last'.id) = last'.name
          THEN UNCHANGED <<objects, history, redoStack>>
          ELSE /\ Len(objects') = Len(objects)
               /\ \A i \in 1..Len(objects) :
                     IF objects[i].key = last'.id
                     THEN objects'[i] =
                              [objects[i] EXCEPT !.val.name =
                                  ExpectedName(OtherNames(objects, last'.id), last'.name)]
                     ELSE objects'[i] = objects[i]]_vars

(***************************************************************************)
(* C13  duplicateObject(id).  When id is not live, the document and both   *)
(* stacks are unchanged.  Otherwise the document grows by exactly one      *)
(* object, stored last: its identifier is no key and no id of an object    *)
(* live before, its name is no name live before, it is not selected, its   *)
(* position is the original's moved by DupOffset along the first axis, its *)
(* other fields are the original's; the objects live before are unchanged. *)
(***************************************************************************)
LiveIds(m) == {m[i].key : i \in 1..Len(m)} \cup {m[i].val.id : i \in 1..Len(m)}

DuplicateContract ==
    [][last'.op = "duplicateObject" =>
          IF ~MapHas(objects, last'.id)
          THEN UNCHANGED <<objects, history, redoStack>>
          ELSE /\ Len(objects') = Len(objects) + 1
               /\ SubSeq(objects', 1, Len(objects)) = objects
               /\ LET obj == MapGet(objects, last'.id)
                      new == objects'[Len(objects')]
                  IN  /\ new.key = new.val.id
                      /\ new.val.id \notin LiveIds(objects)
                      /\ new.val.name \notin LiveNames(objects)
                      /\ new.val.selected = FALSE
                      /\ new.val.position = <<obj.position[1] + DupOffset,
                                              obj.position[2], obj.position[3]>>
                      /\ [new.val EXCEPT !.id = obj.id, !.name = obj.name,
                                         !.position = obj.position,
                                         !.selected = obj.selected] = obj]_vars

(***************************************************************************)
(* C14  UPDATE.  An UPDATE whose target is not live leaves the document    *)
(* unchanged.  Otherwise the target takes the value of every property that *)
(* objectData holds (present and not null), except that a name other than  *)
(* its current one is first made unique against the other live objects;    *)
(* its remaining fields, the other objects and the order stay as they      *)
(* were, and no two live objects have the same name afterwards.            *)
(***************************************************************************)
Updated(pre, target, upd, f) ==
    LET existing == MapGet(pre, target)
    IN  IF f \notin DOMAIN upd THEN existing[f]
        ELSE IF f = "name" /\ upd.name # existing.name
             THEN ExpectedName(OtherNames(pre, target), upd.name)
             ELSE upd[f]

UpdateContract ==
    [][last'.op = "processCommands" =>
          \A i \in 1..Len(last'.cmds) :
              last'.cmds[i].action = "UPDATE" =>
                  \E pre \in {BatchAt(i - 1).objects}, post \in {BatchAt(i).objects} :
                      LET target == TargetId(last'.cmds[i])
                          upd == last'.cmds[i].objectData.fields
                      IN  IF target = "" \/ ~MapHas(pre, target) THEN post = pre
                          ELSE /\ Len(post) = Len(pre)
                               /\ \A j \in 1..Len(pre) :
                                     IF pre[j].key = target
                                     THEN /\ post[j].key = target
                                          /\ DOMAIN post[j].val = DOMAIN pre[j].val
                                          /\ \A f \in DOMAIN pre[j].val :
                                                post[j].val[f] = Updated(pre, target, upd, f)
                                     ELSE post[j] = pre[j]
                               /\ \A j, k \in 1..Len(post) :
                                     post[j].val.name = post[k].val.name => j = k]_vars

(***************************************************************************)
(* C15  Immutable identifier.  No call changes the id field of an object   *)
(* that is live before and after it: an object found under the same key    *)
(* before and after a step has the same id.                                *)
(***************************************************************************)
IdImmutable ==
    [][\A i \in 1..Len(objects), j \in 1..Len(objects') :
          objects[i].key = objects'[j].key => objects'[j].val.id = objects[i].val.id]_vars

(***************************************************************************)
(* C16  DELETE and UPDATE of an id that is not live.  Such a command, at   *)
(* any place of a batch, leaves the document and both stacks as they are,  *)
(* and the batch goes on: its outcome is that of the other commands run in *)
(* their order from the same start.                                        *)
(***************************************************************************)
Remove(s, i) == SubSeq(s, 1, i - 1) \o SubSeq(s, i + 1, Len(s))

MissingTargetSkipped ==
    [][last'.op = "processCommands" =>
          \A i \in 1..Len(last'.cmds) :
              \E pre \in {BatchAt(i - 1)} :
                  (/\ last'.cmds[i].action \in {"DELETE", "UPDATE"}
                   /\ ~MapHas(pre.objects, TargetId(last'.cmds[i]))) =>
                      /\ BatchAt(i) = pre
                      /\ Cur' = forEach(BatchStart, Remove(last'.cmds, i),
                                        Remove(last'.rnd, i))]_vars

\* A batch met a DELETE and an UPDATE of "a" while only another object was
\* live, and then created "a".
MissingTargetWitness ==
    /\ last.op = "processCommands"
    /\ Len(last.cmds) = 3
    /\ last.cmds[1].action = "DELETE" /\ TargetId(last.cmds[1]) = "a"
    /\ last.cmds[2].action = "UPDATE" /\ TargetId(last.cmds[2]) = "a"
    /\ last.cmds[3] = Create("a", "X")
    /\ last.h0 = 1
    /\ Len(past) = 2 /\ Len(past[2]) = 1 /\ past[2][1].key = "b"
    /\ Len(objects) = 2 /\ objects[2].key = "a" /\ objects[2].val.name = "X1"

(***************************************************************************)
(* C17  loadScene with a malformed snapshot.  When the text is not valid   *)
(* JSON, is JSON but not an array, or is an array with a null element, the *)
(* document is unchanged and the call comes back to its caller as a fault. *)
(***************************************************************************)
Malformed(json) ==
    \/ json.kind # "array"
    \/ \E i \in 1..Len(json.items) : IsNull(json.items[i])

MalformedLoadRejected ==
    [][(last'.op = "loadScene" /\ Malformed(last'.json)) =>
          (objects' = objects /\ last'.out = "thrown")]_vars

(***************************************************************************)
(* C18  Scenario B.  Once the script that finalizes two boxes, both under  *)
(* the name "Cube", has run and the App shows its result, the scene holds  *)
(* two objects, named "Cube" and "Cube1".                                  *)
(***************************************************************************)
ScenarioB ==
    (engine.pc = 0 /\ engine.out.kind = "returned" /\ engine.code = TwoCubes) =>
        /\ Len(app.objects) = 2
        /\ app.objects[1].name = "Cube"
        /\ app.objects[2].name = "Cube1"

(***************************************************************************)
(* C19  Bounded execution.  A run that has come to a loop that never ends  *)
(* by itself is eventually over, with a timeout error as its outcome.      *)
(***************************************************************************)
AtLoop ==
    /\ engine.pc \in 1..Len(engine.code.stmts)
    /\ engine.code.stmts[engine.pc].op = "while"

ExecuteTimesOut ==
    AtLoop ~> (engine.pc = 0 /\ engine.out.kind = "thrown"
                  /\ engine.out.error.kind = "Timeout")

(***************************************************************************)
(* C20  Faults of a script.  When a run ends because the script threw, the *)
(* caller of execute gets an Error whose message is "Line ", a line number *)
(* or "?", ": " and the message of what was thrown, and no result list; a  *)
(* script that does not parse gives a SyntaxError, no statement having     *)
(* run.                                                                    *)
(***************************************************************************)
LineIndications == {"?"} \cup {ToString(n) : n \in 1..9}

FaultText(e) == e.message

ScriptFaultsRewrapped ==
    (engine.pc = 0 /\ engine.fault.kind # "none") =>
        /\ engine.out.kind = "thrown"
        /\ engine.out.objects = << >>
        /\ IF engine.fault.kind = "SyntaxError"
           THEN engine.out.error.kind = "SyntaxError" /\ engine.ctx = << >>
           ELSE /\ engine.out.error.kind = "Error"
                /\ \E line \in LineIndications :
                      engine.out.error.message =
                          "Line " \o line \o ": " \o FaultText(engine.fault)
(***************************************************************************)
(* C21: two runs of the same script text give result lists that are equal  *)
(* but for the identifiers of the objects (same count, names, kinds,       *)
(* transforms and colours), whatever ran in between, and a result holds    *)
(* only objects that the statements of its own run name.                   *)
(***************************************************************************)
StripId(o) == [f \in DOMAIN o \ {"id"} |-> o[f]]

StripIds(list) == [k \in 1..Len(list) |-> StripId(list[k])]

AddedNames(code) ==
    {code.stmts[k].name : k \in {n \in 1..Len(code.stmts) :
                                    code.stmts[n].op \in {"Add", "if (window.onerror)"}}}

SandboxDeterminism ==
    /\ \A i, j \in 1..Len(runs) :
           runs[i].code = runs[j].code =>
               StripIds(runs[i].objects) = StripIds(runs[j].objects)
    /\ \A i \in 1..Len(runs) :
           \A k \in 1..Len(runs[i].objects) :
               runs[i].objects[k].name \in AddedNames(runs[i].code)

(***************************************************************************)
(* C22: the result list of a run holds one object for each call of Add     *)
(* with a brush that is not null, in the order of the calls, each with the *)
(* name given to its call: such a call puts one object of that name at     *)
(* the end of the list, no other statement changes the list, and the list  *)
(* is what execute returns.                                                *)
(***************************************************************************)
CallsAdd(st) ==
    \/ st.op = "Add"
    \/ st.op = "if (window.onerror)" /\ app.onerror # "null"

JustRan == engine.pc \in 2..(Len(engine.code.stmts) + 1)

Ran == engine.code.stmts[engine.pc - 1]

IsNullBrush(mesh) == mesh.type = "null"

(***************************************************************************)
(* C23: Union, Subtract or Intersect called with exactly one operand that  *)
(* is null returns the other operand as it is and throws nothing,          *)
(* whichever of the two is the null one.                                   *)
(***************************************************************************)
OneOperandMissing ==
    (/\ JustRan
     /\ Ran.op \in Booleans
     /\ IsNullBrush(Ran.mesh) # IsNullBrush(Ran.b)) =>
        /\ engine.ret = (IF IsNullBrush(Ran.mesh) THEN Ran.b ELSE Ran.mesh)
        /\ engine.fault = NoError
        /\ engine.out.kind # "thrown"

OneOperandMissingWitness ==
    /\ JustRan
    /\ Ran.op = "Subtract"
    /\ IsNullBrush(Ran.mesh)
    /\ Ran.b = RedBox
    /\ engine.ret = RedBox

(***************************************************************************)
(* C24: Union, Subtract or Intersect called with both operands null fails  *)
(* with a NoOperands error and returns no value: a script whose first      *)
(* statement is such a call does not get past it.                          *)
(***************************************************************************)
BothOperandsMissing ==
    (/\ Len(engine.code.stmts) >= 1
     /\ engine.code.stmts[1].op \in Booleans
     /\ IsNullBrush(engine.code.stmts[1].mesh)
     /\ IsNullBrush(engine.code.stmts[1].b)
     /\ engine.pc # 1) =>
        /\ engine.pc = 0
        /\ engine.out.kind = "thrown"
        /\ engine.fault.kind = "NoOperands"

(***************************************************************************)
(* C25: Move, Rotate, Scale and Color called with a brush that is null     *)
(* return it as it is and throw nothing; Add called with a brush that is   *)
(* null throws nothing and leaves the result list as it was.               *)
(***************************************************************************)
NullTolerated ==
    [][(/\ engine.pc \in 1..Len(engine.code.stmts)
        /\ engine.code.stmts[engine.pc].op \in Transformations \cup {"Add"}
        /\ IsNullBrush(engine.code.stmts[engine.pc].mesh)) =>
           /\ engine'.pc = engine.pc + 1
           /\ engine'.ctx = engine.ctx
           /\ engine'.fault = NoError
           /\ engine'.out.kind # "thrown"
           /\ engine.code.stmts[engine.pc].op \in Transformations =>
                  engine'.ret = engine.code.stmts[engine.pc].mesh]_vars

NullToleratedWitness ==
    /\ engine.pc = 3
    /\ engine.code.stmts[1].op = "Scale"
    /\ IsNullBrush(engine.code.stmts[1].mesh)
    /\ engine.code.stmts[2].op = "Add"
    /\ IsNullBrush(engine.code.stmts[2].mesh)
    /\ engine.ctx = << >>

(***************************************************************************)
(* C26 (scenario C): the object that Add makes of the result of Union,     *)
(* Subtract or Intersect of two brushes a and b, neither null, has the     *)
(* colour of a and, where the colours differ, not that of b; a and b may   *)
(* themselves be results of such calls.                                    *)
(***************************************************************************)
ColorOfFirstOperand ==
    (/\ engine.pc = 3
     /\ engine.code.stmts[1].op \in Booleans
     /\ ~IsNullBrush(engine.code.stmts[1].mesh)
     /\ ~IsNullBrush(engine.code.stmts[1].b)
     /\ engine.code.stmts[2] = StAdd(Builtin(engine.code.stmts[1]), "Part")) =>
        /\ Len(engine.ctx) = 1
        /\ engine.ctx[1].color = engine.code.stmts[1].mesh.color
        /\ engine.code.stmts[1].mesh.color # engine.code.stmts[1].b.color =>
               engine.ctx[1].color # engine.code.stmts[1].b.color

ColorOfFirstOperandWitness ==
    /\ engine.pc = 3
    /\ engine.code.stmts[1].op = "Intersect"
    /\ engine.code.stmts[1].mesh = evaluate(RedBox, GreenBall, "SUBTRACTION")
    /\ engine.code.stmts[1].b = Box(1, 1, 1)
    /\ Len(engine.ctx) = 1
    /\ engine.ctx[1].color = "#ff0000"

(***************************************************************************)
(* C27: a running script reaches the builtins and nothing else: no step of *)
(* a script changes the state of the page outside the context of its run,  *)
(* and no step depends on it.                                              *)
(***************************************************************************)
OnlyBuiltinsReachable ==
    [][engine.pc \in 1..Len(engine.code.stmts) =>
           /\ engine.code.stmts[engine.pc].op \in Builtins \cup {"throw", "while"}
           /\ app'.onerror = app.onerror]_vars

(***************************************************************************)
(* C28: Box, Sphere or Cylinder called with a negative dimension fails     *)
(* with an InvalidParameter error and returns no brush; a dimension that   *)
(* is left out is 1, a radius 0.5 (2 and 1 in units of 0.5).               *)
(***************************************************************************)
Negative(args) == \E i \in 1..Len(args) : args[i] < 0

OmittedDimensions ==
    (JustRan /\ Ran.op \in Primitives /\ Ran.args = << >>) =>
        engine.ret = CASE Ran.op = "Box"      -> Box(2, 2, 2)
                       [] Ran.op = "Sphere"   -> Sphere(1)
                       [] Ran.op = "Cylinder" -> Cylinder(1, 1, 2)

InvalidDimensionFails ==
    /\ (/\ Len(engine.code.stmts) >= 1
        /\ engine.code.stmts[1].op \in Primitives
        /\ Negative(engine.code.stmts[1].args)
        /\ engine.pc # 1) =>
           /\ engine.pc = 0
           /\ engine.out.kind = "thrown"
           /\ engine.fault.kind = "InvalidParameter"
    /\ OmittedDimensions

(***************************************************************************)
(* C29: the undo stack never holds more than 20 snapshots, and the undo    *)
(* and redo stacks together never hold more than 20, with redo pushing on  *)
(* the undo stack unchecked and with UNDO and REDO run inside a batch that *)
(* took a snapshot.                                                        *)
(***************************************************************************)
StacksBounded ==
    /\ Len(history) <= maxHistory
    /\ Len(history) + Len(redoStack) <= maxHistory

\* A full undo stack after a batch that took a snapshot (evicting the oldest
\* one), undid and redid.
StacksBoundedWitness ==
    /\ last.op = "processCommands"
    /\ HasAction(last.cmds, {"CLEAR"})
    /\ HasAction(last.cmds, {"REDO"})
    /\ last.h0 = maxHistory
    /\ Len(history) = maxHistory
    /\ nops > maxHistory

(***************************************************************************)
(* C30: every object of the document is stored under the key that is its   *)
(* own id, so that no two records of an export have the same id and        *)
(* getObject(id) returns an object whose id is id.                         *)
(***************************************************************************)
KeyIsId ==
    /\ \A i \in 1..Len(objects) : objects[i].key = objects[i].val.id
    /\ \A i, j \in 1..Len(exportScene(Cur).items) :
           i # j => exportScene(Cur).items[i].id # exportScene(Cur).items[j].id
    /\ \A id \in Ids \cup GenIds :
           MapHas(objects, id) => MapGet(objects, id).id = id

(***************************************************************************)
(* C31: an UNDO after a mutating command of the same batch pops the        *)
(* snapshot the batch itself took: after a batch of a CREATE and an UNDO   *)
(* the document is the one before the batch, the undo stack is the one     *)
(* before the batch, and the redo stack holds the document as it was just  *)
(* after the CREATE.                                                       *)
(***************************************************************************)
CreateUndoStep ==
    /\ last'.op = "processCommands"
    /\ Len(last'.cmds) = 2
    /\ last'.cmds[1].action = "CREATE"
    /\ last'.cmds[2].action = "UNDO"

UndoPopsOwnSnapshot ==
    [][CreateUndoStep =>
          /\ getObjects(Cur') = getObjects(Cur)
          /\ history' = history
          /\ redoStack' = <<exportScene(BatchAt(1))>>]_vars

\* such a batch, whose CREATE added an object
UndoPopsOwnSnapshotWitness ==
    /\ last.op = "processCommands"
    /\ Len(last.cmds) = 2
    /\ last.cmds[1].action = "CREATE"
    /\ last.cmds[2].action = "UNDO"
    /\ Len(redoStack) = 1
    /\ Len(redoStack[1].items) = Len(objects) + 1
    /\ Len(objects) >= 1

(***************************************************************************)
(* C32: a batch pushes one snapshot if and only if one of its commands is  *)
(* a CREATE, UPDATE, DELETE or CLEAR, whether or not a command changes the *)
(* document; so after a batch of commands that all do nothing (DELETE or   *)
(* UPDATE of an id that is not live, CREATE without objectData, CLEAR of   *)
(* an empty scene) the next undo() takes an entry off the undo stack and   *)
(* leaves the document as it is.  Stated for batches without UNDO and      *)
(* REDO, which move snapshots themselves.                                  *)
(***************************************************************************)
PlainBatchStep ==
    /\ last'.op = "processCommands"
    /\ ~HasAction(last'.cmds, {"UNDO", "REDO"})

Pushed(h, snapshot) ==
    IF Len(h) < maxHistory THEN Append(h, snapshot) ELSE Append(Tail(h), snapshot)

DoesNothing(cmd) ==
    \/ cmd.action \in {"DELETE", "UPDATE"} /\ ~MapHas(objects, TargetId(cmd))
    \/ cmd.action = "CREATE" /\ ~cmd.objectData.present
    \/ cmd.action = "CLEAR" /\ objects = << >>

AllDoNothing(cmds) == \A i \in 1..Len(cmds) : DoesNothing(cmds[i])

SnapshotIffMutating ==
    [][PlainBatchStep =>
          /\ IF HasAction(last'.cmds, {"CREATE", "UPDATE", "DELETE", "CLEAR"})
             THEN history' = Pushed(history, exportScene(Cur))
             ELSE history' = history
          /\ AllDoNothing(last'.cmds) =>
                 /\ getObjects(Cur') = getObjects(Cur)
                 /\ Len(undo(Cur').history) = Len(history') - 1
                 /\ getObjects(undo(Cur')) = getObjects(Cur')]_vars

(***************************************************************************)
(* C33: a CREATE whose id (objectData.id, else targetId) is the id of a    *)
(* live object replaces that object: the number of live objects stays the  *)
(* same, the new name is computed with the name of the replaced object     *)
(* counted as taken, and names that were pairwise distinct stay so.        *)
(***************************************************************************)
CreateOnLiveIdStep ==
    /\ last'.op = "processCommands"
    /\ Len(last'.cmds) = 1
    /\ last'.cmds[1].action = "CREATE"
    /\ last'.cmds[1].objectData.present
    /\ \E i \in 1..Len(objects) :
           objects[i].val.id = CreatedId(last'.cmds[1], "")

CreateReplaces ==
    [][CreateOnLiveIdStep =>
          LET id == CreatedId(last'.cmds[1], "")
          IN  /\ Len(objects') = Len(objects)
              /\ MapHas(objects', id)
              /\ MapGet(objects', id).name =
                     ExpectedName(LiveNames(objects), ProposedName(last'.cmds[1]))
              /\ NamesUnique => NamesUnique']_vars

(***************************************************************************)
(* C34: when generateScript or the first execution fails, the objects      *)
(* shown and currentScript are those from before the message, and the chat *)
(* got the message of the user and one error message.                      *)
(***************************************************************************)
FailureKeepsScene ==
    (/\ app.pc = "idle"
     /\ app.sent > 0
     /\ app.outcome \in {"generationFailed", "executionFailed"}) =>
        /\ app.objects = app.start.objects
        /\ app.currentScript = app.start.currentScript
        /\ Len(app.messages) = app.start.messages + 2
        /\ app.messages[Len(app.messages) - 1] = "user"
        /\ app.messages[Len(app.messages)] = "Error executing design"
        /\ ~app.isAiLoading

\* The second message failed in its first execution, after the first message
\* had put two cubes on show.
FailureKeepsSceneWitness ==
    /\ app.pc = "idle"
    /\ app.sent = 2
    /\ app.outcome = "executionFailed"
    /\ app.currentScript = TwoCubes
    /\ Len(app.objects) = 2
    /\ engine.code # TwoCubes

(***************************************************************************)
(* C35: while no message is being handled, the objects shown are the list  *)
(* the last successful execution returned, and currentScript is the script *)
(* of that execution; the two change only together, in the step in which   *)
(* execute returns, also when the execution of the fixed script throws     *)
(* after the first execution succeeded.                                    *)
(***************************************************************************)
ShownIsLastResult ==
    /\ [](app.pc = "idle" /\ engine.pc = 0 =>
            IF runs = << >>
            THEN app.objects = << >> /\ app.currentScript = NoScript
            ELSE /\ app.objects = runs[Len(runs)].objects
                 /\ app.currentScript = runs[Len(runs)].code)
    /\ [][(app'.objects # app.objects \/ app'.currentScript # app.currentScript) =>
              /\ engine.pc = Len(engine.code.stmts) + 1
              /\ engine'.out.kind = "returned"
              /\ app'.objects = engine'.out.objects
              /\ app'.currentScript = engine.code]_vars

\* The fixed script threw; the two cubes of the first execution stay.
ShownIsLastResultWitness ==
    /\ app.pc = "idle"
    /\ app.outcome = "fixFailed"
    /\ app.looks = "false"
    /\ engine.out.kind = "thrown"
    /\ app.currentScript = TwoCubes
    /\ Len(app.objects) = 2

(***************************************************************************)
(* The calls of execute made for the message in hand                       *)
(***************************************************************************)
ExecuteCalls == nops - app.n0

LoadingEnds == app.isAiLoading ~> ~app.isAiLoading

\* C38: while a message is being processed the form starts no second
\* handleSendMessage: at most one call of handleSendMessage has not ended at
\* any time, and the engine runs a script only for that call or for the
\* initial load.
OneInFlight ==
    /\ app.inFlight <= 1
    /\ app.isAiLoading <=> app.inFlight = 1
    /\ (engine.pc # 0 /\ runs # << >>) => app.inFlight = 1

\* A second message is being processed after the form has refused a submit
\* that came while an earlier one was.
OneInFlightWitness ==
    app.refused /\ app.sent = 2 /\ app.inFlight = 1 /\ engine.pc # 0

====
